---- MODULE Spec2Model ----
(***************************************************************************)
(* find_x32_ip.py: one UDP broadcast probe (OSC /info) and one bounded     *)
(* wait for a reply; the sender's IP is printed.                           *)
(*                                                                         *)
(* The program is the sequence of statements of find_x32, one action per   *)
(* statement, with Python's try/except/finally and sys.exit (SystemExit is *)
(* raised inside the try, passes the "except Exception" clause and runs    *)
(* the finally block).  The environment is the network: what the socket    *)
(* calls raise, and which datagrams reach the socket and when.  It is      *)
(* chosen at Init (net) and is the same for every invocation of the        *)
(* program, so that invocations can be compared.                           *)
(*                                                                         *)
(* Assumptions: writes to stdout/stderr succeed; recvfrom truncates a      *)
(* datagram longer than its buffer (POSIX); no signal interrupts the run.  *)
(***************************************************************************)
EXTENDS Integers, Sequences, FiniteSets, TLC

VARIABLES
    pc,          \* the statement of find_x32 about to run
    sock,        \* "none" | "open" | "closed"
    broadcast,   \* SO_BROADCAST enabled on the socket
    timeout,     \* the socket's timeout in seconds, NoTimeout = blocking
    sent,        \* datagrams this run has sent, in order
    buf,         \* datagrams queued at the socket and not read, oldest first
    got,         \* <<>> or <<[data, addr]>>: what recvfrom returned
    recvCalls,   \* number of recvfrom calls begun in this run
    exc,         \* the exception in flight
    stdout,      \* lines written to standard output
    stderr,      \* lines written to standard error
    exitStatus,  \* the process's exit status, Running before it ends
    net,         \* the environment: [fault, replies]
    delivered,   \* how many of net.replies have reached the host in this run
    timedOut,    \* the receive timeout has elapsed in this run
    run,         \* the number of the current invocation
    history      \* the observable outcomes of the earlier invocations

vars == <<pc, sock, broadcast, timeout, sent, buf, got, recvCalls, exc,
          stdout, stderr, exitStatus, net, delivered, timedOut, run, history>>

-----------------------------------------------------------------------------
(* Bounds *)

MaxReplies == 2
MaxRuns == 2

(* Program constants *)

BufSize == 1024
TimeoutSecs == 2
X32Port == 10023
BroadcastIP == "255.255.255.255"

packet == <<47, 105, 110, 102, 111, 0, 0, 0, 44, 0, 0, 0>>

(* Encodings *)

NoTimeout == -1
Running == -1

Min(a, b) == IF a < b THEN a ELSE b

-----------------------------------------------------------------------------
(* The environment *)

BigPayload == [i \in 1..(BufSize + 1) |-> 0]

Payloads == {<<>>, <<0>>, BigPayload}

Senders == {<<"192.168.1.10", X32Port>>, <<"192.168.1.20", X32Port>>}

Faults == {"none", "socket", "setsockopt", "settimeout", "sendto", "recvfrom"}

Reply == [addr : Senders, payload : Payloads, late : BOOLEAN]

\* Replies arrive in order; one that arrives after the timeout has elapsed
\* is not followed by one that arrives before it.
ReplySeqs ==
    {s \in UNION {[1..n -> Reply] : n \in 0..MaxReplies} :
        \A i \in 1..Len(s) : \A j \in 1..Len(s) :
            (i < j /\ s[i].late) => s[j].late}

\* Replies answer the probe: there are none when the probe is never sent.
Networks ==
    {n \in [fault : Faults, replies : ReplySeqs] :
        n.fault \in {"none", "recvfrom"} \/ n.replies = <<>>}

\* Replies that are still to arrive before the timeout elapses.
OnTimePending ==
    delivered < Len(net.replies) /\ ~net.replies[delivered + 1].late

-----------------------------------------------------------------------------
(* The program *)

Outcome == [out |-> stdout, err |-> stderr, status |-> exitStatus]

Fresh ==
    /\ pc = "socket"
    /\ sock = "none"
    /\ broadcast = FALSE
    /\ timeout = NoTimeout
    /\ sent = <<>>
    /\ buf = <<>>
    /\ got = <<>>
    /\ recvCalls = 0
    /\ exc = "none"
    /\ stdout = <<>>
    /\ stderr = <<>>
    /\ exitStatus = Running
    /\ delivered = 0
    /\ timedOut = FALSE

Init ==
    /\ Fresh
    /\ net \in Networks
    /\ run = 1
    /\ history = <<>>

\* line 14: sock = socket.socket(AF_INET, SOCK_DGRAM), outside the try
Socket ==
    /\ pc = "socket"
    /\ IF net.fault = "socket"
         THEN /\ exc' = "OSError"
              /\ pc' = "exit"
              /\ UNCHANGED sock
         ELSE /\ sock' = "open"
              /\ pc' = "setsockopt"
              /\ UNCHANGED exc
    /\ UNCHANGED <<broadcast, timeout, sent, buf, got, recvCalls, stdout,
                   stderr, exitStatus, net, delivered, timedOut, run, history>>

\* line 15: sock.setsockopt(SOL_SOCKET, SO_BROADCAST, 1), outside the try
SetSockOpt ==
    /\ pc = "setsockopt"
    /\ IF net.fault = "setsockopt"
         THEN /\ exc' = "OSError"
              /\ pc' = "exit"
              /\ UNCHANGED broadcast
         ELSE /\ broadcast' = TRUE
              /\ pc' = "settimeout"
              /\ UNCHANGED exc
    /\ UNCHANGED <<sock, timeout, sent, buf, got, recvCalls, stdout,
                   stderr, exitStatus, net, delivered, timedOut, run, history>>

\* Mutant: the socket is left in blocking mode, without a timeout.
SetTimeoutBlocking ==
    /\ pc = "settimeout"
    /\ IF net.fault = "settimeout"
         THEN /\ exc' = "OSError"
              /\ pc' = "exit"
         ELSE /\ pc' = "sendto"
              /\ UNCHANGED exc
    /\ UNCHANGED <<sock, broadcast, timeout, sent, buf, got, recvCalls, stdout,
                   stderr, exitStatus, net, delivered, timedOut, run, history>>

\* line 16: sock.settimeout(2.0), outside the try
SetTimeout ==
    /\ pc = "settimeout"
    /\ IF net.fault = "settimeout"
         THEN /\ exc' = "OSError"
              /\ pc' = "exit"
              /\ UNCHANGED timeout
         ELSE /\ timeout' = TimeoutSecs
              /\ pc' = "sendto"
              /\ UNCHANGED exc
    /\ UNCHANGED <<sock, broadcast, sent, buf, got, recvCalls, stdout,
                   stderr, exitStatus, net, delivered, timedOut, run, history>>

\* line 20: sock.sendto(packet, ('255.255.255.255', 10023)), first in the try
SendTo ==
    /\ pc = "sendto"
    /\ IF net.fault = "sendto"
         THEN /\ exc' = "OSError"
              /\ pc' = "except"
              /\ UNCHANGED sent
         ELSE /\ sent' = Append(sent, [data |-> packet,
                                       dest |-> <<BroadcastIP, X32Port>>])
              /\ pc' = "recvfrom"
              /\ UNCHANGED exc
    /\ UNCHANGED <<sock, broadcast, timeout, buf, got, recvCalls, stdout,
                   stderr, exitStatus, net, delivered, timedOut, run, history>>

\* line 23: the call of sock.recvfrom(1024) begins
RecvCall ==
    /\ pc = "recvfrom"
    /\ pc' = "recvwait"
    /\ recvCalls' = recvCalls + 1
    /\ UNCHANGED <<sock, broadcast, timeout, sent, buf, got, exc, stdout,
                   stderr, exitStatus, net, delivered, timedOut, run, history>>

\* line 23: recvfrom raises an error other than the timeout
RecvError ==
    /\ pc = "recvwait"
    /\ net.fault = "recvfrom"
    /\ exc' = "OSError"
    /\ pc' = "except"
    /\ UNCHANGED <<sock, broadcast, timeout, sent, buf, got, recvCalls, stdout,
                   stderr, exitStatus, net, delivered, timedOut, run, history>>

\* Mutant: recvfrom hands out the newest queued datagram, not the oldest.
RecvReturnNewest ==
    /\ pc = "recvwait"
    /\ net.fault # "recvfrom"
    /\ buf # <<>>
    /\ got' = <<[data |-> SubSeq(buf[Len(buf)].payload, 1,
                                 Min(Len(buf[Len(buf)].payload), BufSize)),
                 addr |-> buf[Len(buf)].addr]>>
    /\ buf' = SubSeq(buf, 1, Len(buf) - 1)
    /\ pc' = "check"
    /\ UNCHANGED <<sock, broadcast, timeout, sent, recvCalls, exc, stdout,
                   stderr, exitStatus, net, delivered, timedOut, run, history>>

\* line 23: data, addr = sock.recvfrom(1024) returns the oldest queued
\* datagram, cut to the buffer size
RecvReturn ==
    /\ pc = "recvwait"
    /\ net.fault # "recvfrom"
    /\ buf # <<>>
    /\ got' = <<[data |-> SubSeq(Head(buf).payload, 1,
                                 Min(Len(Head(buf).payload), BufSize)),
                 addr |-> Head(buf).addr]>>
    /\ buf' = Tail(buf)
    /\ pc' = "check"
    /\ UNCHANGED <<sock, broadcast, timeout, sent, recvCalls, exc, stdout,
                   stderr, exitStatus, net, delivered, timedOut, run, history>>

\* line 23: nothing arrived within the socket's timeout: socket.timeout
RecvTimeout ==
    /\ pc = "recvwait"
    /\ net.fault # "recvfrom"
    /\ buf = <<>>
    /\ ~OnTimePending
    /\ timeout # NoTimeout
    /\ exc' = "timeout"
    /\ timedOut' = TRUE
    /\ pc' = "except"
    /\ UNCHANGED <<sock, broadcast, timeout, sent, buf, got, recvCalls, stdout,
                   stderr, exitStatus, net, delivered, run, history>>

\* lines 26-28: if data: print(addr[0]); sys.exit(0)
CheckData ==
    /\ pc = "check"
    /\ IF Len(got[1].data) > 0
         THEN /\ stdout' = Append(stdout, got[1].addr[1])
              /\ exc' = "SystemExit0"
         ELSE UNCHANGED <<stdout, exc>>
    /\ pc' = "finally"
    /\ UNCHANGED <<sock, broadcast, timeout, sent, buf, got, recvCalls,
                   stderr, exitStatus, net, delivered, timedOut, run, history>>

\* Mutant: the timeout handler waits again instead of exiting.
ExceptTimeoutRetry ==
    /\ pc = "except"
    /\ exc = "timeout"
    /\ exc' = "none"
    /\ pc' = IF recvCalls < 2 THEN "recvfrom" ELSE "finally"
    /\ UNCHANGED <<sock, broadcast, timeout, sent, buf, got, recvCalls, stdout,
                   stderr, exitStatus, net, delivered, timedOut, run, history>>

\* Mutant: the timeout handler sends the probe again instead of exiting.
ExceptTimeoutResend ==
    /\ pc = "except"
    /\ exc = "timeout"
    /\ exc' = "none"
    /\ pc' = IF Len(sent) < 2 THEN "sendto" ELSE "finally"
    /\ UNCHANGED <<sock, broadcast, timeout, sent, buf, got, recvCalls, stdout,
                   stderr, exitStatus, net, delivered, timedOut, run, history>>

\* lines 30-32: except socket.timeout: sys.exit(1)
ExceptTimeout ==
    /\ pc = "except"
    /\ exc = "timeout"
    /\ exc' = "SystemExit1"
    /\ pc' = "finally"
    /\ UNCHANGED <<sock, broadcast, timeout, sent, buf, got, recvCalls, stdout,
                   stderr, exitStatus, net, delivered, timedOut, run, history>>

\* Mutant: the general clause exits without reporting the error.
ExceptOtherSilent ==
    /\ pc = "except"
    /\ exc = "OSError"
    /\ exc' = "SystemExit1"
    /\ pc' = "finally"
    /\ UNCHANGED <<sock, broadcast, timeout, sent, buf, got, recvCalls, stdout,
                   stderr, exitStatus, net, delivered, timedOut, run, history>>

\* lines 33-36: except Exception as e: print(..., file=sys.stderr); sys.exit(1)
ExceptOther ==
    /\ pc = "except"
    /\ exc = "OSError"
    /\ stderr' = Append(stderr, <<"An error occurred: ", net.fault>>)
    /\ exc' = "SystemExit1"
    /\ pc' = "finally"
    /\ UNCHANGED <<sock, broadcast, timeout, sent, buf, got, recvCalls, stdout,
                   exitStatus, net, delivered, timedOut, run, history>>

\* lines 37-38: finally: sock.close()
Finally ==
    /\ pc = "finally"
    /\ sock' = "closed"
    /\ pc' = "exit"
    /\ UNCHANGED <<broadcast, timeout, sent, buf, got, recvCalls, exc, stdout,
                   stderr, exitStatus, net, delivered, timedOut, run, history>>

\* lines 40-41: find_x32() has returned or raised and the interpreter ends:
\* SystemExit(n) gives status n, a plain return gives 0, any other exception
\* is reported as a traceback on stderr and gives status 1
ProcessExit ==
    /\ pc = "exit"
    /\ CASE exc = "SystemExit0" -> exitStatus' = 0 /\ UNCHANGED stderr
         [] exc = "SystemExit1" -> exitStatus' = 1 /\ UNCHANGED stderr
         [] exc = "none"        -> exitStatus' = 0 /\ UNCHANGED stderr
         [] OTHER               ->
              /\ exitStatus' = 1
              /\ stderr' = Append(stderr, <<"Traceback: OSError: ", net.fault>>)
    /\ pc' = "done"
    /\ UNCHANGED <<sock, broadcast, timeout, sent, buf, got, recvCalls, exc,
                   stdout, net, delivered, timedOut, run, history>>

\* Mutant: the next invocation inherits the socket's unread datagrams.
InvokeKeepsQueue ==
    /\ pc = "done"
    /\ run < MaxRuns
    /\ run' = run + 1
    /\ history' = Append(history, Outcome)
    /\ pc' = "socket"
    /\ sock' = "none"
    /\ broadcast' = FALSE
    /\ timeout' = NoTimeout
    /\ sent' = <<>>
    /\ got' = <<>>
    /\ recvCalls' = 0
    /\ exc' = "none"
    /\ stdout' = <<>>
    /\ stderr' = <<>>
    /\ exitStatus' = Running
    /\ delivered' = 0
    /\ timedOut' = FALSE
    /\ UNCHANGED <<net, buf>>

\* The program is run again, against the same network: a new process starts
\* from nothing.
Invoke ==
    /\ pc = "done"
    /\ run < MaxRuns
    /\ run' = run + 1
    /\ history' = Append(history, Outcome)
    /\ pc' = "socket"
    /\ sock' = "none"
    /\ broadcast' = FALSE
    /\ timeout' = NoTimeout
    /\ sent' = <<>>
    /\ buf' = <<>>
    /\ got' = <<>>
    /\ recvCalls' = 0
    /\ exc' = "none"
    /\ stdout' = <<>>
    /\ stderr' = <<>>
    /\ exitStatus' = Running
    /\ delivered' = 0
    /\ timedOut' = FALSE
    /\ UNCHANGED net

\* The network: the next reply reaches the host.  It is queued if the socket
\* is open and dropped otherwise.  A late reply arrives only once the
\* timeout has elapsed, any other only before.
Deliver ==
    /\ pc # "done"
    /\ Len(sent) > 0
    /\ delivered < Len(net.replies)
    /\ net.replies[delivered + 1].late = timedOut
    /\ delivered' = delivered + 1
    /\ buf' = IF sock = "open"
                THEN Append(buf, net.replies[delivered + 1])
                ELSE buf
    /\ UNCHANGED <<pc, sock, broadcast, timeout, sent, got, recvCalls, exc,
                   stdout, stderr, exitStatus, net, timedOut, run, history>>

Next ==
    \/ Socket
    \/ SetSockOpt
    \/ SetTimeout
    \/ SendTo
    \/ RecvCall
    \/ RecvError
    \/ RecvReturn
    \/ RecvTimeout
    \/ CheckData
    \/ ExceptTimeout
    \/ ExceptOther
    \/ Finally
    \/ ProcessExit
    \/ Invoke
    \/ Deliver

Spec == Init /\ [][Next]_vars

\* Fairness: the interpreter runs each statement in turn, the kernel's timer
\* ends the wait, and a reply that is on its way arrives.
Program ==
    \/ Socket \/ SetSockOpt \/ SetTimeout \/ SendTo \/ RecvCall \/ RecvError
    \/ RecvReturn \/ RecvTimeout \/ CheckData \/ ExceptTimeout \/ ExceptOther
    \/ Finally \/ ProcessExit

FairSpec == Spec /\ WF_vars(Program) /\ WF_vars(Deliver)

-----------------------------------------------------------------------------
(* Observable outcomes of a terminated run *)

Done == pc = "done"

SenderIPs == {a[1] : a \in Senders}

Success ==
    /\ Len(stdout) = 1
    /\ stdout[1] \in SenderIPs
    /\ stderr = <<>>
    /\ exitStatus = 0

Silent ==
    /\ stdout = <<>>
    /\ stderr = <<>>
    /\ exitStatus = 1

SocketError ==
    /\ stdout = <<>>
    /\ Len(stderr) > 0
    /\ \A i \in 1..Len(stderr) : stderr[i] # <<>>
    /\ exitStatus = 1

\* No reply is ever sent and no socket call fails.
QuietNetwork == net.replies = <<>> /\ net.fault = "none"

-----------------------------------------------------------------------------
(* Claims *)

\* C1: a run that received a reply (recvfrom returned it before the timeout)
\* ends with exactly one line on stdout, the sender's IP, nothing on stderr
\* and exit status 0.
C1_ReplyPrinted ==
    (Done /\ got # <<>>) =>
        /\ stdout = <<got[1].addr[1]>>
        /\ stderr = <<>>
        /\ exitStatus = 0

\* C2: the payload is never inspected: whatever the length of the received
\* data, zero included, the run prints the sender's IP and exits with 0.
C2_PayloadNeverInspected ==
    \A n \in 0..BufSize :
        (Done /\ got # <<>> /\ Len(got[1].data) = n) =>
            (stdout = <<got[1].addr[1]>> /\ exitStatus = 0)

\* C3 as stated: a run that sent the probe and to which no datagram ever
\* arrives ends silently with exit status 1.
C3_Original ==
    (Done /\ Len(sent) = 1 /\ net.replies = <<>>) => Silent

\* C3 as amended: if no datagram ever arrives, the send succeeds and recvfrom
\* raises no error other than the timeout, the receive wait ends (by the
\* timeout) and the run terminates silently with exit status 1.
C3_SilentTimeout ==
    /\ [](QuietNetwork /\ Done => Silent /\ timedOut)
    /\ (QuietNetwork /\ pc = "recvwait") ~> Done

C3_Witness == Done /\ QuietNetwork /\ timedOut /\ recvCalls = 1

\* C4: once the timeout has elapsed a reply is never read or printed, and
\* the run ends as the run without any reply does: silently, exit status 1.
C4_LateReplyIgnored ==
    timedOut =>
        /\ got = <<>>
        /\ stdout = <<>>
        /\ recvCalls = 1
        /\ pc \notin {"recvfrom", "recvwait", "check"}
        /\ Done => Silent

C4_Witness ==
    Done /\ timedOut /\ buf # <<>> /\ buf[1].late /\ buf[1].payload # <<>>

\* C5: a socket call that fails other than by the timeout, at whichever
\* step, ends the run with a non-empty diagnostic on stderr, nothing on
\* stdout and exit status 1.
C5_SocketErrorReported ==
    (Done /\ net.fault # "none") => SocketError

C5_Witness == Done /\ net.fault = "setsockopt" /\ sock = "open"

\* C6: a terminated run that created the socket has closed it.
C6_SocketClosed ==
    (Done /\ sock # "none") => sock = "closed"

\* C7: a terminated run ends as Success, Timeout (silent) or SocketError,
\* and its exit status is 0 exactly when one address line was printed.
C7_ThreeOutcomes ==
    Done =>
        /\ Success \/ Silent \/ SocketError
        /\ exitStatus = 0 <=> Len(stdout) = 1

\* C8: every invocation against the same network ends with the same
\* observable outcome as the invocations before it.
C8_SameOutcome ==
    (Done /\ history # <<>>) =>
        \A i \in 1..Len(history) : history[i] = Outcome

C8_Witness ==
    /\ Done
    /\ run = 2
    /\ stdout # <<>>
    /\ Len(net.replies) = 2
    /\ net.replies[2].late

\* C9: at most one datagram is sent per run; it is the 12 bytes
\* 2F 69 6E 66 6F 00 00 00 2C 00 00 00 to 255.255.255.255:10023, sent with
\* broadcast enabled and the timeout set, and before the receive begins.
C9_SingleProbe ==
    /\ Len(sent) <= 1
    /\ Len(sent) = 1 =>
        /\ sent[1].data = <<47, 105, 110, 102, 111, 0, 0, 0, 44, 0, 0, 0>>
        /\ sent[1].dest = <<"255.255.255.255", 10023>>
        /\ broadcast
        /\ timeout = 2
    /\ recvCalls > 0 => Len(sent) = 1
    /\ pc = "sendto" => recvCalls = 0

C9_Witness == Done /\ Len(sent) = 1 /\ timedOut

\* C10: at most one receive per run, and only the first datagram delivered
\* is used: whatever is printed is the first datagram's sender, at most one
\* line is printed, and every later datagram stays unread in the queue.
C10_FirstDatagramOnly ==
    /\ recvCalls <= 1
    /\ Len(stdout) <= 1
    /\ got # <<>> =>
        /\ got[1].addr = net.replies[1].addr
        /\ \A i \in 1..Len(buf) : buf[i] = net.replies[i + 1]
    /\ stdout # <<>> =>
        /\ got # <<>>
        /\ stdout[1] = net.replies[1].addr[1]

C10_Witness ==
    /\ Done
    /\ stdout # <<>>
    /\ Len(buf) = 1
    /\ buf[1].addr # got[1].addr
    /\ buf[1].payload # <<>>

====
